---- MODULE Spec2Model ----
(***************************************************************************)
(* Model of src/lib.rs: Stack<T>, a singly linked stack of boxed tiles.    *)
(*                                                                         *)
(* Option<X> is a sequence of length at most one: None is <<>> and Some(x) *)
(* is <<x>>.  A Box<Tile<T>> is the tile itself (exclusive ownership), so  *)
(* a chain is a nested value  [value, next]  ending in None.               *)
(* Every method is an operator that returns the stack it leaves behind,    *)
(* the value it returns and whether a usize operation overflowed.          *)
(***************************************************************************)
EXTENDS Integers, Sequences, FiniteSets

\* Bounds of the model.
MaxPushes == 4
UsizeBits == 4

\* The element type T: the values callers push and search for.
Values == {3, 6, 9}

VARIABLES
    stack,            \* the Stack<T>: [head, size]
    last,             \* the most recent call: [op, arg, ret, pre, live]
    prev,             \* the call before it
    fault,            \* "none", "panic" (checked build) or "wrap" (unchecked build)
    overflow_checks,  \* build profile: are usize overflows checked?
    log,              \* history: every value pushed, in push order
    live,             \* history: indices of log pushed and not yet popped
    popped            \* history: has pop been called since new()?

vars == <<stack, last, prev, fault, overflow_checks, log, live, popped>>

----------------------------------------------------------------------------
\* Option<X>

None == <<>>

Some(x) == <<x>>

is_some(o) == o # None

unwrap(o) == o[1]

----------------------------------------------------------------------------
\* usize arithmetic: width UsizeBits; an overflow panics in a build with
\* overflow checks and wraps in a build without.

RECURSIVE Pow2(_)
Pow2(n) == IF n = 0 THEN 1 ELSE 2 * Pow2(n - 1)

USIZE_MOD == Pow2(UsizeBits)

usize_add(a, b) ==
    IF a + b < USIZE_MOD THEN [v |-> a + b, fault |-> "none"]
    ELSE IF overflow_checks THEN [v |-> a, fault |-> "panic"]
    ELSE [v |-> (a + b) % USIZE_MOD, fault |-> "wrap"]

usize_sub(a, b) ==
    IF a >= b THEN [v |-> a - b, fault |-> "none"]
    ELSE IF overflow_checks THEN [v |-> a, fault |-> "panic"]
    ELSE [v |-> (a - b + USIZE_MOD) % USIZE_MOD, fault |-> "wrap"]

\* The worse of two faults: a wrap stays on record once it has happened.
join(f, g) == IF g = "none" THEN f ELSE g

----------------------------------------------------------------------------
\* Tile<T> and Stack<T>

Tile(value, next) == [value |-> value, next |-> next]

Stack(head, size) == [head |-> head, size |-> size]

new == Stack(None, 0)

\* Faulty variant of peek: takes the head tile out instead of borrowing it.
peek_take(self) ==
    [self  |-> Stack(None, self.size),
     ret   |-> IF is_some(self.head) THEN Some(unwrap(self.head).value) ELSE None,
     fault |-> "none"]

\* fn peek(&self) -> Option<&T>
peek(self) ==
    [self  |-> self,
     ret   |-> IF is_some(self.head) THEN Some(unwrap(self.head).value) ELSE None,
     fault |-> "none"]

\* Faulty variant of pop: head is not set to v.next after take().
pop_forget_next(self) ==
    IF is_some(self.head)
    THEN LET d == usize_sub(self.size, 1)
         IN  [self  |-> Stack(None, d.v),
              ret   |-> IF d.fault = "panic" THEN None
                        ELSE Some(unwrap(self.head).value),
              fault |-> d.fault]
    ELSE [self |-> Stack(None, self.size), ret |-> None, fault |-> "none"]

\* Faulty variant of pop: size is not decremented.
pop_skip_decrement(self) ==
    IF is_some(self.head)
    THEN [self  |-> Stack(unwrap(self.head).next, self.size),
          ret   |-> Some(unwrap(self.head).value),
          fault |-> "none"]
    ELSE [self |-> Stack(None, self.size), ret |-> None, fault |-> "none"]

\* Faulty variant of pop: size is decremented before the match, in both arms.
pop_decrement_when_empty(self) ==
    LET d == usize_sub(self.size, 1) IN
    IF d.fault = "panic"
    THEN [self |-> self, ret |-> None, fault |-> "panic"]
    ELSE IF is_some(self.head)
    THEN [self  |-> Stack(unwrap(self.head).next, d.v),
          ret   |-> Some(unwrap(self.head).value),
          fault |-> d.fault]
    ELSE [self |-> Stack(None, d.v), ret |-> None, fault |-> d.fault]

\* Faulty variant of pop: returns the top value and removes nothing.
pop_peek_only(self) ==
    [self  |-> self,
     ret   |-> IF is_some(self.head) THEN Some(unwrap(self.head).value) ELSE None,
     fault |-> "none"]

\* fn pop(&mut self) -> Option<T>.  self.head.take() leaves None in head; the
\* Some arm stores v.next there and then decrements size.  A panic in the
\* decrement unwinds with head already replaced and nothing returned.
pop(self) ==
    LET taken == self.head IN
    IF is_some(taken)
    THEN LET v == unwrap(taken)
             d == usize_sub(self.size, 1)
         IN  [self  |-> Stack(v.next, d.v),
              ret   |-> IF d.fault = "panic" THEN None ELSE Some(v.value),
              fault |-> d.fault]
    ELSE [self |-> Stack(None, self.size), ret |-> None, fault |-> "none"]

\* Faulty variant of push: size is not incremented.
push_no_increment(self, data) ==
    [self  |-> Stack(Some(Tile(data, self.head)), self.size),
     ret   |-> None,
     fault |-> "none"]

\* Faulty variant of push: the new tile is linked in below the old head.
push_below_head(self, data) ==
    LET i == usize_add(self.size, 1) IN
    IF i.fault = "panic"
    THEN [self |-> self, ret |-> None, fault |-> "panic"]
    ELSE [self  |-> IF is_some(self.head)
                    THEN Stack(Some(Tile(unwrap(self.head).value,
                                         Some(Tile(data, unwrap(self.head).next)))),
                               i.v)
                    ELSE Stack(Some(Tile(data, None)), i.v),
          ret   |-> None,
          fault |-> i.fault]

\* Faulty variant of push: the Some arm builds its tile with next: None, as
\* the None arm does, and so drops the old chain.
push_drops_chain(self, data) ==
    LET i == usize_add(self.size, 1) IN
    IF i.fault = "panic"
    THEN [self |-> self, ret |-> None, fault |-> "panic"]
    ELSE [self  |-> Stack(Some(Tile(data, None)), i.v),
          ret   |-> None,
          fault |-> i.fault]

\* fn push(&mut self, data: T).  size is incremented first; both arms of the
\* match build a tile whose next is what head.take() returned.
push(self, data) ==
    LET i     == usize_add(self.size, 1)
        taken == self.head
    IN  IF i.fault = "panic"
        THEN [self |-> self, ret |-> None, fault |-> "panic"]
        ELSE [self  |-> IF is_some(taken)
                        THEN Stack(Some(Tile(data, Some(unwrap(taken)))), i.v)
                        ELSE Stack(Some(Tile(data, None)), i.v),
              ret   |-> None,
              fault |-> i.fault]

\* Faulty variant of the search loop: does not return at the first match and
\* so reports the match nearest the bottom.
RECURSIVE search_loop_last_match(_, _, _)
search_loop_last_match(ptr, pos, data) ==
    IF is_some(ptr)
    THEN LET p == unwrap(ptr)
             d == usize_sub(pos, 1)
         IN  IF d.fault = "panic"
             THEN [ret |-> None, fault |-> "panic"]
             ELSE LET r == search_loop_last_match(p.next, d.v, data)
                  IN  [ret   |-> IF is_some(r.ret) \/ p.value # data
                                 THEN r.ret ELSE Some(pos),
                       fault |-> join(d.fault, r.fault)]
    ELSE [ret |-> None, fault |-> "none"]

\* The while-let loop of search: ptr walks the chain, pos is decremented after
\* every tile that does not match.
RECURSIVE search_loop(_, _, _)
search_loop(ptr, pos, data) ==
    IF is_some(ptr)
    THEN LET p == unwrap(ptr) IN
         IF p.value = data
         THEN [ret |-> Some(pos), fault |-> "none"]
         ELSE LET d == usize_sub(pos, 1) IN
              IF d.fault = "panic"
              THEN [ret |-> None, fault |-> "panic"]
              ELSE LET r == search_loop(p.next, d.v, data)
                   IN  [ret |-> r.ret, fault |-> join(d.fault, r.fault)]
    ELSE [ret |-> None, fault |-> "none"]

\* Faulty variant of search: pos starts at size - 1 (positions from 0).
search_from_size_minus_one(self, data) ==
    LET d == usize_sub(self.size, 1) IN
    IF d.fault = "panic"
    THEN [self |-> self, ret |-> None, fault |-> "panic"]
    ELSE LET r == search_loop(self.head, d.v, data)
         IN  [self |-> self, ret |-> r.ret, fault |-> join(d.fault, r.fault)]

\* fn search(&self, data: T) -> Option<usize>
search(self, data) ==
    LET r == search_loop(self.head, self.size, data)
    IN  [self |-> self, ret |-> r.ret, fault |-> r.fault]

----------------------------------------------------------------------------
\* The caller: any sequence of calls on a stack made by new().

Max(S) == CHOOSE m \in S : \A x \in S : x <= m

CallRecord(op, arg, ret) ==
    [op |-> op, arg |-> arg, ret |-> ret, pre |-> stack, live |-> live]

Init ==
    /\ stack = new
    /\ last = [op |-> "new", arg |-> None, ret |-> None, pre |-> new, live |-> {}]
    /\ prev = [op |-> "new", arg |-> None, ret |-> None, pre |-> new, live |-> {}]
    /\ fault = "none"
    /\ overflow_checks \in BOOLEAN
    /\ log = <<>>
    /\ live = {}
    /\ popped = FALSE

Returned(op, arg, r) ==
    /\ fault # "panic"
    /\ stack' = r.self
    /\ last' = CallRecord(op, arg, r.ret)
    /\ prev' = last
    /\ fault' = join(fault, r.fault)
    /\ UNCHANGED overflow_checks

Push ==
    \E data \in Values :
        /\ Len(log) < MaxPushes
        /\ Returned("push", Some(data), push(stack, data))
        /\ log' = IF fault' = "panic" THEN log ELSE Append(log, data)
        /\ live' = IF fault' = "panic" THEN live ELSE live \cup {Len(log) + 1}
        /\ UNCHANGED popped

Pop ==
    LET r == pop(stack) IN
        /\ Returned("pop", None, r)
        /\ live' = IF is_some(r.ret) /\ live # {} THEN live \ {Max(live)} ELSE live
        /\ popped' = TRUE
        /\ UNCHANGED log

Peek ==
    /\ Returned("peek", None, peek(stack))
    /\ UNCHANGED <<log, live, popped>>

Search ==
    \E data \in Values :
        /\ Returned("search", Some(data), search(stack, data))
        /\ UNCHANGED <<log, live, popped>>

Next == Push \/ Pop \/ Peek \/ Search

Spec == Init /\ [][Next]_vars

----------------------------------------------------------------------------
\* What the properties speak of.

\* The number of tiles reached from head by following next until None.
RECURSIVE chain_len(_)
chain_len(head) == IF is_some(head) THEN 1 + chain_len(unwrap(head).next) ELSE 0

\* The stored values, top to bottom.
RECURSIVE chain_values(_)
chain_values(head) ==
    IF is_some(head)
    THEN <<unwrap(head).value>> \o chain_values(unwrap(head).next)
    ELSE <<>>

\* The pushed values with index in S, most recently pushed first.
RECURSIVE unpopped_rev(_, _)
unpopped_rev(lg, S) ==
    IF S = {} THEN <<>> ELSE <<lg[Max(S)]>> \o unpopped_rev(lg, S \ {Max(S)})

\* What popping until None returns, the final None included.
RECURSIVE drain(_)
drain(self) ==
    LET r == pop(self)
    IN  IF is_some(r.ret) THEN <<r.ret>> \o drain(r.self) ELSE <<r.ret>>

\* Positions (1 = top) of the stored values equal to x.
matches(head, x) ==
    {i \in 1..Len(chain_values(head)) : chain_values(head)[i] = x}

Min(S) == CHOOSE m \in S : \A x \in S : m <= x

\* C1: in every reachable state size equals the number of tiles reachable
\* from head through next.
C1_SizeIsChainLength == stack.size = chain_len(stack.head)

C1_Witness ==
    /\ last.op = "pop" /\ prev.op = "search"
    /\ stack.size = 2 /\ chain_len(stack.head) = 2

\* C2: head is None exactly when size is 0; a pop of a non-empty stack leaves
\* it empty exactly when it removed the last remaining element; a push leaves
\* it non-empty.
C2_HeadNoneIffSizeZero ==
    /\ (stack.head = None) <=> (stack.size = 0)
    /\ (last.op = "pop" /\ is_some(last.pre.head))
          => ((stack.head = None) <=> (chain_len(last.pre.head) = 1))
    /\ last.op = "push" => (is_some(stack.head) /\ stack.size >= 1)

C2_Witness ==
    /\ last.op = "pop" /\ is_some(last.pre.head) /\ stack.head = None
    /\ prev.op = "pop" /\ is_some(prev.pre.head)

\* C3: last in, first out.  The stored values, top to bottom, are the pushed
\* and not yet popped values, most recent first; a pop returns the most
\* recently pushed value not yet popped (None when there is none); popping
\* until empty returns them in that order and then None.
C3_LastInFirstOut ==
    /\ chain_values(stack.head) = unpopped_rev(log, live)
    /\ (last.op = "pop" /\ last.live # {})
          => last.ret = Some(log[Max(last.live)])
    /\ (last.op = "pop" /\ last.live = {}) => last.ret = None
    /\ drain(stack) =
          [i \in 1..Cardinality(live) |-> Some(unpopped_rev(log, live)[i])]
             \o <<None>>

C3_Witness ==
    /\ last.op = "pop" /\ last.live = {1, 3} /\ live = {1}
    /\ log[1] # log[3] /\ last.ret = Some(log[3])

\* C4: a pop of a non-empty stack returns what peek returned just before,
\* makes the removed tile's successor the head, leaves the values below as
\* they were and decrements size by one.
C4_PopReturnsTop ==
    (last.op = "pop" /\ is_some(last.pre.head)) =>
        /\ is_some(last.ret)
        /\ last.ret = peek(last.pre).ret
        /\ stack.head = unwrap(last.pre.head).next
        /\ chain_values(stack.head) = Tail(chain_values(last.pre.head))
        /\ stack.size = last.pre.size - 1

C4_Witness ==
    /\ last.op = "pop" /\ last.pre.size = 3 /\ stack.size = 2
    /\ prev.op = "peek" /\ prev.ret = last.ret /\ is_some(last.ret)

\* C5: a pop of an empty stack returns None and changes nothing: head stays
\* None and size stays 0, also when repeated and however the stack was emptied.
C5_PopOnEmpty ==
    (last.op = "pop" /\ last.pre.head = None) =>
        /\ last.ret = None
        /\ stack = last.pre
        /\ stack.head = None
        /\ stack.size = 0
        /\ fault = "none"

C5_Witness ==
    /\ last.op = "pop" /\ last.pre.head = None
    /\ prev.op = "pop" /\ prev.pre.head = None
    /\ Len(log) >= 2

\* C6: push(v) puts v on top of the unchanged previous chain and increments
\* size by one; after n pushes and no pop, size is n.
C6_PushOnTop ==
    /\ last.op = "push" =>
          /\ stack.head = Some(Tile(unwrap(last.arg), last.pre.head))
          /\ chain_values(stack.head)
                = <<unwrap(last.arg)>> \o chain_values(last.pre.head)
          /\ stack.size = last.pre.size + 1
    /\ ~popped => stack.size = Len(log)

C6_Witness ==
    /\ last.op = "push" /\ prev.op = "push" /\ ~popped
    /\ stack.size = 3 /\ Len(log) = 3

\* C7: search(x) returns the position of the topmost value equal to x, the
\* top having position size and the bottom position 1, and None when no value
\* equals x (always on an empty stack); a position is in 1..size.
C7_SearchPosition ==
    last.op = "search" =>
        LET m == matches(last.pre.head, unwrap(last.arg)) IN
        /\ m = {} => last.ret = None
        /\ m # {} => last.ret = Some(last.pre.size - Min(m) + 1)
        /\ is_some(last.ret) => unwrap(last.ret) \in 1..last.pre.size
        /\ last.pre.head = None => last.ret = None

C7_Witness ==
    /\ last.op = "search" /\ last.arg = Some(6)
    /\ chain_values(last.pre.head) = <<9, 6, 6>>
    /\ last.ret = Some(2)

\* C8: push(v) immediately followed by pop returns Some(v) and gives back the
\* stack as it was before the push.
C8_PushPopRoundTrip ==
    (last.op = "pop" /\ prev.op = "push") =>
        /\ last.ret = prev.arg
        /\ stack.size = prev.pre.size
        /\ stack = prev.pre

C8_Witness ==
    /\ last.op = "pop" /\ prev.op = "push"
    /\ prev.pre.size = 2 /\ stack.size = 2 /\ last.ret = prev.arg

\* C9: peek and search change nothing; peek returns the top value of a
\* non-empty stack and None on an empty one.
C9_PeekSearchReadOnly ==
    /\ last.op \in {"peek", "search"} => stack = last.pre
    /\ last.op = "peek" =>
          last.ret = IF chain_values(last.pre.head) = <<>> THEN None
                     ELSE Some(Head(chain_values(last.pre.head)))

C9_Witness ==
    /\ last.op = "peek" /\ prev.op = "search"
    /\ stack.size = 2 /\ last.ret = Some(9) /\ stack = prev.pre

\* C10: no call panics and no usize operation overflows; pop decrements size
\* only when it is at least 1, and the position counter of an unsuccessful
\* search ends at 0 or above.
C10_NoPanic ==
    /\ fault = "none"
    /\ (last.op = "pop" /\ is_some(last.pre.head)) => last.pre.size >= 1
    /\ (last.op = "search" /\ last.ret = None)
          => last.pre.size - chain_len(last.pre.head) >= 0

C10_Witness ==
    /\ last.op = "search" /\ last.ret = None /\ last.pre.size = 3
    /\ overflow_checks /\ popped

====
